---- MODULE Spec2Model ----
(***************************************************************************)
(* A model of the Raft server of raft/src/server.rs: RaftServerInner (the  *)
(* background task of a RaftServer), its event loop `run`, the handlers    *)
(* handle_message / handle_timer / handle_control, and the pure handlers   *)
(* handle_append_entries_rep / send_append_entries / change_mode.          *)
(*                                                                         *)
(* Every node id of the network is in Nodes.  The nodes in `servers` run   *)
(* the server code; the others are bare network nodes (the LocalNode of    *)
(* test::two_node_network) that may send a server any message.             *)
(***************************************************************************)
EXTENDS Integers, Sequences, FiniteSets, TLC

(***************************************************************************)
(* Bounds of the model.                                                    *)
(***************************************************************************)
\* number of nodes of the network (RaftNetworkNode::network_size)
NetworkSize == 3
\* largest term a message of a bare node carries, and the cap on current_term
MaxTerm == 2
\* largest term of a log entry, and of prev_log_term and last_log_term, in a
\* message of a bare node
MaxEntryTerm == 1
\* cap on the length of a log
MaxLog == 2
\* largest number of entries in an AppendEntriesReq of a bare node
MaxEntries == 1
\* cap on the number of pending CallElection timers of a server
MaxElectionTimers == 2
MaxPairElectionTimers == 3
\* capacity of a server's inbound queue
MaxInbox == 1

Nodes == 0 .. (NetworkSize - 1)
Terms == 0 .. MaxTerm
EntryTerms == 0 .. MaxEntryTerm
Indices == 0 .. (MaxLog + 1)
Commands == {"x"}

\* Option<T>: None is the empty tuple, Some(v) the one-element tuple
None == << >>
Some(v) == << v >>
IsSome(o) == o # None
Unwrap(o) == o[1]

MinFirst(a, b) == a
Min(a, b) == IF a <= b THEN a ELSE b
MaxSecond(a, b) == b
Max(a, b) == IF a >= b THEN a ELSE b

(***************************************************************************)
(* LogEntry and RaftLog (crate::log).                                      *)
(***************************************************************************)
LogEntry(term, item) == [term |-> term, item |-> item]

\* RaftLog::new
RaftLogNew == << >>

\* RaftLog::len
LogLen(l) == Len(l)

\* RaftLog::get is defined for 0 ..= len; get(0) is a sentinel of term 0
LogGetDefined(l, index) == index <= Len(l)
LogGet(l, index) == IF index = 0 THEN [term |-> 0, item |-> ""] ELSE l[index]

\* RaftLog::slice(from..) is the entries at from ..= len, defined for from <= len + 1
LogSliceDefined(l, from) == from >= 1 /\ from <= Len(l) + 1
LogSlice(l, from) == SubSeq(l, from, Len(l))

\* RaftLog::append_entries: Ok iff prev_index = 0 or the entry at prev_index has
\* prev_term; on Ok the log is its first prev_index entries, then the entries
AppendOk(l, prev_index, prev_term) ==
    \/ prev_index = 0
    \/ (prev_index <= Len(l) /\ l[prev_index].term = prev_term)
AppendEntries(l, prev_index, prev_term, entries) ==
    IF AppendOk(l, prev_index, prev_term)
    THEN [ok |-> TRUE, log |-> SubSeq(l, 1, prev_index) \o entries]
    ELSE [ok |-> FALSE, log |-> l]

(***************************************************************************)
(* Messages (enum Message).                                                *)
(***************************************************************************)
AppendEntriesReq(term, leader, prev_log_index, prev_log_term, entries, leader_commit) ==
    [type |-> "AppendEntriesReq", term |-> term, leader |-> leader,
     prev_log_index |-> prev_log_index, prev_log_term |-> prev_log_term,
     entries |-> entries, leader_commit |-> leader_commit]
AppendEntriesRep(term, next_index, success) ==
    [type |-> "AppendEntriesRep", term |-> term, next_index |-> next_index,
     success |-> success]
RequestVoteReq(term, candidate_id, last_log_index, last_log_term) ==
    [type |-> "RequestVoteReq", term |-> term, candidate_id |-> candidate_id,
     last_log_index |-> last_log_index, last_log_term |-> last_log_term]
RequestVoteRep(term, vote_granted) ==
    [type |-> "RequestVoteRep", term |-> term, vote_granted |-> vote_granted]

VARIABLES
    servers,            \* the nodes that run a RaftServer
    state,              \* state[n]: RaftState of server n
    timers,             \* timers[n]: the DelayQueue<Timer>, in insertion order
    heartbeat_delay,    \* heartbeat_delay[n][p]: Option<Key>
    election_timeout,   \* election_timeout[n]: Option<Key>
    status,             \* status[n]: "running", "stopped" (run returned) or "panicked"
    inbox,              \* inbox[n]: messages sent to n and not yet received, oldest first
    out,                \* the node.send calls of the last event, in order
    voters,             \* the servers whose granted votes are recorded
    granted,            \* granted[n]: the <<term, candidate_id>> of the votes n granted
                        \* at the term of its last grant
    hist                \* the event of this iteration of the loop of run: its node,
                        \* sender, message (or timer, or control) and the RaftState
                        \* before it; Idle between two iterations

vars == << servers, voters, state, timers, heartbeat_delay, election_timeout, status,
           inbox, out, granted, hist >>
(***************************************************************************)
(* RaftServerInner, as a record the steps of a handler pass along:         *)
(*   node_id, state, timers, heartbeat_delay, election_timeout: the fields *)
(*   sent: the node.send calls made so far in this event, in order         *)
(*   panicked: the task has panicked (an unwrap of Err, an assert!, an     *)
(*   unreachable!, an index or key that does not exist)                    *)
(***************************************************************************)
Inner(n) ==
    [node_id |-> n, state |-> state[n], timers |-> timers[n],
     heartbeat_delay |-> heartbeat_delay[n],
     election_timeout |-> election_timeout[n],
     sent |-> << >>, panicked |-> FALSE,
     send_err |-> FALSE, send_failed |-> FALSE, remove_failed |-> FALSE]

Panic(I) == [I EXCEPT !.panicked = TRUE]

\* enum Timer
CallElection == << "CallElection" >>
FollowerUpdate(node_id) == << "FollowerUpdate", node_id >>

TimerValues == { CallElection } \cup { FollowerUpdate(p) : p \in Nodes }

\* The DelayQueue<Timer> q gives, for each Timer value, the keys of its pending
\* timers, oldest first: timers of one value have one delay (ELECTION_TIMEOUT,
\* HEARTBEAT) and expire in the order of their insertion.
DelayQueueNew == [t \in TimerValues |-> << >>]

\* DelayQueue::insert gives the timer a key that no pending timer has
FreshKey(q, timer) ==
    CHOOSE k \in 0 .. Len(q[timer]) :
        /\ \A i \in 1 .. Len(q[timer]) : q[timer][i] # k
        /\ \A j \in 0 .. (k - 1) : \E i \in 1 .. Len(q[timer]) : q[timer][i] = j
TimersInsert(q, timer) == [q EXCEPT ![timer] = Append(@, FreshKey(q, timer))]

\* Keys are opaque: Rank(qt, key) renames a key to its rank in the queue qt of
\* its Timer value (0 for the oldest), and a key that names no pending timer
\* to Len(qt).  Renamed is what an Option<Key> becomes, Ranked what qt becomes.
Rank(qt, key) ==
    IF \E i \in 1 .. Len(qt) : qt[i] = key
    THEN (CHOOSE i \in 1 .. Len(qt) : qt[i] = key) - 1
    ELSE Len(qt)
Renamed(qt, o) == IF IsSome(o) THEN Some(Rank(qt, Unwrap(o))) ELSE None
Ranked(qt) == [i \in 1 .. Len(qt) |-> i - 1]

\* DelayQueue::remove panics when the key names no pending timer
TimersHas(q, timer, key) == \E i \in 1 .. Len(q[timer]) : q[timer][i] = key
TimersRemove(q, timer, key) == [q EXCEPT ![timer] = SelectSeq(@, LAMBDA k : k # key)]

\* self.timers.remove(&key)
RemoveKey(I, timer, key) ==
    IF TimersHas(I.timers, timer, key)
    THEN [I EXCEPT !.timers = TimersRemove(@, timer, key)]
    ELSE [Panic(I) EXCEPT !.remove_failed = TRUE]

\* Stop the election timeout
stop_election_timeout(I) ==
    IF IsSome(I.election_timeout)
    THEN [RemoveKey(I, CallElection, Unwrap(I.election_timeout))
              EXCEPT !.election_timeout = None]
    ELSE I

\* (Re-)start the election_timeout: inserts a timer and overwrites the key;
\* a timer the old key named stays in the queue
start_election_timeout(I) ==
    [I EXCEPT !.election_timeout = Some(FreshKey(I.timers, CallElection)),
              !.timers = TimersInsert(@, CallElection)]

\* Send a message to a peer; self.node.send(peer, msg).await? returns the Err of
\* a send that fails (send_err), and run unwraps it
send_to(I, peer, message) ==
    IF I.panicked THEN I
    ELSE IF I.send_err THEN [Panic(I) EXCEPT !.send_failed = TRUE]
    ELSE [I EXCEPT !.sent = Append(@, [dst |-> peer, msg |-> message])]

\* the heartbeat part of send_append_entries, and Action::SetHeartbeatTimer
SetHeartbeatTimer(I, peer) ==
    LET I1 == IF IsSome(I.heartbeat_delay[peer])
              THEN [RemoveKey(I, FollowerUpdate(peer), Unwrap(I.heartbeat_delay[peer]))
                        EXCEPT !.heartbeat_delay[peer] = None]
              ELSE I
    IN  [I1 EXCEPT !.heartbeat_delay[peer] = Some(FreshKey(I1.timers, FollowerUpdate(peer))),
                   !.timers = TimersInsert(@, FollowerUpdate(peer))]

\* the AppendEntriesReq that send_append_entries builds for a peer; it is
\* defined when next_index[peer] - 1 does not underflow and the log has the
\* entries it reads
AppendEntriesReqDefined(st, peer) ==
    /\ st.next_index[peer] >= 1
    /\ (st.next_index[peer] - 1 > 1 => LogGetDefined(st.log, st.next_index[peer] - 1))
    /\ LogSliceDefined(st.log, st.next_index[peer])
\* the message of send_append_entries with its entries in the reverse order
AppendEntriesReqReversed(st, peer) ==
    LET prev_log_index == st.next_index[peer] - 1
        es == LogSlice(st.log, prev_log_index + 1)
    IN  AppendEntriesReq(st.current_term, st.node_id, prev_log_index, 0,
                         [i \in 1 .. Len(es) |-> es[Len(es) + 1 - i]], st.commit_index)
AppendEntriesReqFor(st, peer) ==
    LET prev_log_index == st.next_index[peer] - 1
        prev_log_term == IF prev_log_index > 1
                         THEN LogGet(st.log, prev_log_index).term
                         ELSE 0
    IN  AppendEntriesReq(st.current_term, st.node_id, prev_log_index, prev_log_term,
                         LogSlice(st.log, prev_log_index + 1), st.commit_index)

\* RaftServerInner::send_append_entries
send_append_entries(I, peer) ==
    IF I.panicked THEN I
    ELSE IF ~AppendEntriesReqDefined(I.state, peer) THEN Panic(I)
    ELSE SetHeartbeatTimer(send_to(I, peer, AppendEntriesReqFor(I.state, peer)), peer)

RECURSIVE SendAppendEntriesFrom(_, _)
\* for peer in 0..network_size { send_append_entries(peer) }
SendAppendEntriesFrom(I, peer) ==
    IF peer >= NetworkSize THEN I
    ELSE SendAppendEntriesFrom(send_append_entries(I, peer), peer + 1)

RECURSIVE SendToFrom(_, _, _)
\* for peer in 0..network_size { send_to(peer, &message) }
SendToFrom(I, peer, message) ==
    IF peer >= NetworkSize THEN I
    ELSE SendToFrom(send_to(I, peer, message), peer + 1, message)

\* an election that keeps the term: no self.state.current_term += 1
StartElectionSameTerm(I) ==
    IF I.panicked THEN I
    ELSE IF I.state.mode # "Candidate" THEN Panic(I)
    ELSE LET I1 == [I EXCEPT !.state.voted_for = Some(I.node_id)]
             message == RequestVoteReq(I1.state.current_term, I.node_id,
                            LogLen(I1.state.log),
                            LogGet(I1.state.log, LogLen(I1.state.log)).term)
         IN  start_election_timeout(SendToFrom(I1, 0, message))
\* RaftServerInner::start_election
start_election(I) ==
    IF I.panicked THEN I
    ELSE IF I.state.mode # "Candidate" THEN Panic(I)
    ELSE LET I1 == [I EXCEPT !.state.current_term = @ + 1,
                             !.state.voted_for = Some(I.node_id)]
             message == RequestVoteReq(I1.state.current_term, I.node_id,
                            LogLen(I1.state.log),
                            LogGet(I1.state.log, LogLen(I1.state.log)).term)
         IN  start_election_timeout(SendToFrom(I1, 0, message))

RECURSIVE StopHeartbeatTimers(_, _)
\* for delay in heartbeat_delay.iter_mut() { if let Some(k) = delay.take() { timers.remove(&k) } }
StopHeartbeatTimers(I, peer) ==
    IF peer >= NetworkSize THEN I
    ELSE IF IsSome(I.heartbeat_delay[peer])
    THEN StopHeartbeatTimers(
             [RemoveKey(I, FollowerUpdate(peer), Unwrap(I.heartbeat_delay[peer]))
                 EXCEPT !.heartbeat_delay[peer] = None], peer + 1)
    ELSE StopHeartbeatTimers(I, peer + 1)

\* change_mode whose Leader entry does not re-initialize next_index and match_index
ChangeModeKeepsIndex(I, new_mode) ==
    IF I.panicked THEN I
    ELSE IF I.state.mode = new_mode THEN Panic(I)
    ELSE LET old_mode == I.state.mode
             I1 == [I EXCEPT !.state.mode = new_mode]
             I2 == IF old_mode = "Leader" THEN StopHeartbeatTimers(I1, 0)
                   ELSE stop_election_timeout(I1)
         IN  CASE new_mode = "Follower" -> start_election_timeout(I2)
               [] new_mode = "Candidate" -> start_election(I2)
               [] new_mode = "Leader" ->
                    SendAppendEntriesFrom(
                        [I2 EXCEPT !.state.current_leader = Some(I.node_id)], 0)
\* RaftServerInner::change_mode
change_mode(I, new_mode) ==
    IF I.panicked THEN I
    ELSE IF I.state.mode = new_mode THEN Panic(I)
    ELSE LET old_mode == I.state.mode
             I1 == [I EXCEPT !.state.mode = new_mode]
             I2 == IF old_mode = "Leader" THEN StopHeartbeatTimers(I1, 0)
                   ELSE stop_election_timeout(I1)
         IN  CASE new_mode = "Follower" -> start_election_timeout(I2)
               [] new_mode = "Candidate" -> start_election(I2)
               [] new_mode = "Leader" ->
                    SendAppendEntriesFrom(
                        [I2 EXCEPT !.state.current_leader = Some(I.node_id),
                                   !.state.next_index =
                                       [p \in Nodes |-> LogLen(I2.state.log) + 1],
                                   !.state.match_index = [p \in Nodes |-> 0]], 0)
(***************************************************************************)
(* handle_message, one operator per arm of its match.                      *)
(***************************************************************************)
\* let mut success = term >= self.state.current_term
TermOkStale(term, current_term) == TRUE
TermOk(term, current_term) == term >= current_term

\* the AppendEntriesRep that ends the AppendEntriesReq arm
ReplyShort(st, success) ==
    AppendEntriesRep(st.current_term, LogLen(st.log), success)
Reply(st, success) ==
    AppendEntriesRep(st.current_term, LogLen(st.log) + 1, success)

\* Message::AppendEntriesReq
HandleAppendEntriesReq(I, peer, m) ==
    IF I.state.mode = "Leader" THEN I   \* leaders don't respond to this message
    ELSE
    LET I1 == IF I.state.mode = "Follower" THEN start_election_timeout(I) ELSE I
        term_ok == TermOk(m.term, I1.state.current_term)
        r == AppendEntries(I1.state.log, m.prev_log_index, m.prev_log_term, m.entries)
        success == term_ok /\ r.ok
        I2 == IF term_ok THEN [I1 EXCEPT !.state.log = r.log] ELSE I1
        I3 == IF success /\ I2.state.mode = "Candidate"
              THEN change_mode(I2, "Follower") ELSE I2
        I4 == IF success /\ m.leader_commit > I3.state.commit_index
              THEN [I3 EXCEPT !.state.commit_index =
                                  Min(m.leader_commit, LogLen(I3.state.log))]
              ELSE I3
        I5 == IF success
              THEN [I4 EXCEPT !.state.current_term = m.term,
                              !.state.current_leader = Some(m.leader)]
              ELSE I4
    IN  send_to(I5, peer, Reply(I5.state, success))

\* vote_granted without the comparison of the logs
VoteGrantedAnyLog(st, m) ==
    /\ ~(m.term < st.current_term)
    /\ (IsSome(st.voted_for) => m.candidate_id = Unwrap(st.voted_for))

\* the vote_granted that the RequestVoteReq arm computes
VoteGranted(st, m) ==
    LET receiver_last_log_index == LogLen(st.log)
        receiver_last_log_term == LogGet(st.log, receiver_last_log_index).term
    IN  /\ ~(m.term < st.current_term)
        /\ (IsSome(st.voted_for) => m.candidate_id = Unwrap(st.voted_for))
        /\ ~(m.last_log_term < receiver_last_log_term)
        /\ (m.last_log_term = receiver_last_log_term
              => ~(m.last_log_index < receiver_last_log_index))

\* Message::RequestVoteReq: the reply goes to candidate_id; no field of the
\* state is assigned
HandleRequestVoteReq(I, peer, m) ==
    send_to(I, m.candidate_id,
            RequestVoteRep(I.state.current_term, VoteGranted(I.state, m)))

\* Message::RequestVoteRep(..) => Ok(())
HandleRequestVoteRepElects(I, peer, m) ==
    IF I.state.mode = "Candidate" /\ m.vote_granted /\ m.term = I.state.current_term
    THEN [I EXCEPT !.state.mode = "Leader", !.state.current_leader = Some(I.node_id)]
    ELSE I
HandleRequestVoteRep(I, peer, m) == I

(***************************************************************************)
(* The handlers over (RaftState, Actions): S is [state, actions, panicked] *)
(***************************************************************************)
\* Actions::send_to, then Actions::set_heartbeat_timer
pure_send_append_entries(S, peer) ==
    IF S.panicked THEN S
    ELSE IF ~AppendEntriesReqDefined(S.state, peer) THEN [S EXCEPT !.panicked = TRUE]
    ELSE [S EXCEPT !.actions = @ \o << [action |-> "SendTo", peer |-> peer,
                                        message |-> AppendEntriesReqFor(S.state, peer)],
                                       [action |-> "SetHeartbeatTimer", peer |-> peer] >>]

RECURSIVE PureSendAppendEntriesFrom(_, _)
PureSendAppendEntriesFrom(S, peer) ==
    IF peer >= NetworkSize THEN S
    ELSE PureSendAppendEntriesFrom(pure_send_append_entries(S, peer), peer + 1)

\* fn change_mode(state, actions, new_mode)
pure_change_mode(S, new_mode) ==
    IF S.state.mode = new_mode THEN [S EXCEPT !.panicked = TRUE]
    ELSE LET old_mode == S.state.mode
             S1 == [S EXCEPT !.state.mode = new_mode,
                             !.actions = Append(@,
                                 IF old_mode = "Leader"
                                 THEN [action |-> "StopHeartbeatTimers"]
                                 ELSE [action |-> "StopElectionTimer"])]
         IN  CASE new_mode = "Follower" ->
                    [S1 EXCEPT !.actions = Append(@, [action |-> "SetElectionTimer"])]
               [] new_mode = "Candidate" -> S1
               [] new_mode = "Leader" ->
                    PureSendAppendEntriesFrom(
                        [S1 EXCEPT !.state.current_leader = Some(S.state.node_id),
                                   !.state.next_index =
                                       [p \in Nodes |-> LogLen(S1.state.log) + 1],
                                   !.state.match_index = [p \in Nodes |-> 0]], 0)

\* handle_append_entries_rep without the assignment of match_index
HandleRepKeepsMatch(S, peer, message) ==
    IF S.state.mode = "Leader" /\ message.success
    THEN [S EXCEPT !.state.next_index[peer] = message.next_index]
    ELSE S

\* fn handle_append_entries_rep(state, peer, message, actions)
handle_append_entries_rep(S, peer, message) ==
    IF S.state.mode # "Leader" THEN S
    ELSE IF message.success
    THEN IF message.next_index < 1 THEN [S EXCEPT !.panicked = TRUE]
         ELSE [S EXCEPT !.state.next_index[peer] = message.next_index,
                        !.state.match_index[peer] = message.next_index - 1]
    ELSE IF message.term > S.state.current_term
    THEN pure_change_mode(S, "Follower")
    ELSE IF S.state.next_index[peer] < 1 THEN [S EXCEPT !.panicked = TRUE]
    ELSE pure_send_append_entries(
             [S EXCEPT !.state.next_index[peer] =
                  Max(1, Min(S.state.next_index[peer] - 1, message.next_index))], peer)

\* one Action of execute_actions
ExecuteAction(I, a) ==
    IF I.panicked THEN I
    ELSE CASE a.action = "SetElectionTimer" ->
                start_election_timeout(stop_election_timeout(I))
           [] a.action = "StopElectionTimer" -> stop_election_timeout(I)
           [] a.action = "SetHeartbeatTimer" -> SetHeartbeatTimer(I, a.peer)
           [] a.action = "StopHeartbeatTimers" -> StopHeartbeatTimers(I, 0)
           [] a.action = "SendTo" -> send_to(I, a.peer, a.message)

RECURSIVE execute_actions(_, _)
\* RaftServerInner::execute_actions
execute_actions(I, actions) ==
    IF actions = << >> THEN I
    ELSE execute_actions(ExecuteAction(I, Head(actions)), Tail(actions))

\* Message::AppendEntriesRep
HandleAppendEntriesRep(I, peer, m) ==
    LET S == handle_append_entries_rep(
                 [state |-> I.state, actions |-> << >>, panicked |-> FALSE], peer, m)
    IN  IF S.panicked THEN Panic(I)
        ELSE execute_actions([I EXCEPT !.state = S.state], S.actions)

\* RaftServerInner::handle_message; bytes that are no Message make
\* serde_json::from_slice fail, and run unwraps the Err
handle_message(I, peer, m) ==
    CASE m.type = "AppendEntriesReq" -> HandleAppendEntriesReq(I, peer, m)
      [] m.type = "AppendEntriesRep" -> HandleAppendEntriesRep(I, peer, m)
      [] m.type = "RequestVoteReq" -> HandleRequestVoteReq(I, peer, m)
      [] m.type = "RequestVoteRep" -> HandleRequestVoteRep(I, peer, m)
      [] m.type = "Malformed" -> Panic(I)

\* handle_timer that leaves the key of the timer that fired in
\* heartbeat_delay and election_timeout
HandleTimerKeepsKey(I, t) ==
    IF t[1] = "FollowerUpdate"
    THEN send_append_entries(I, t[2])
    ELSE CASE I.state.mode = "Follower" -> change_mode(I, "Candidate")
           [] I.state.mode = "Candidate" -> start_election(I)
           [] I.state.mode = "Leader" -> Panic(I)
\* RaftServerInner::handle_timer
handle_timer(I, t) ==
    IF t[1] = "FollowerUpdate"
    THEN send_append_entries([I EXCEPT !.heartbeat_delay[t[2]] = None], t[2])
    ELSE LET I1 == [I EXCEPT !.election_timeout = None]
         IN  CASE I1.state.mode = "Follower" -> change_mode(I1, "Candidate")
               [] I1.state.mode = "Candidate" -> start_election(I1)
               [] I1.state.mode = "Leader" -> Panic(I1)   \* unreachable!()

\* Control::Add without the test of the mode: a node that is no Leader
\* appends the item to its log
HandleControlAddAnyMode(I, item) ==
    LET term == I.state.current_term
        entry == LogEntry(term, item)
        prev_log_index == LogLen(I.state.log)
        prev_log_term == IF prev_log_index > 1
                         THEN LogGet(I.state.log, prev_log_index).term
                         ELSE 0
        r == AppendEntries(I.state.log, prev_log_index, prev_log_term, << entry >>)
    IN  IF ~r.ok THEN Panic(I)
        ELSE IF I.state.mode # "Leader" THEN [I EXCEPT !.state.log = r.log]
        ELSE SendAppendEntriesFrom([I EXCEPT !.state.log = r.log], 0)
\* RaftServerInner::handle_control, Control::Add(item)
HandleControlAdd(I, item) ==
    IF I.state.mode # "Leader" THEN I
    ELSE LET term == I.state.current_term
             entry == LogEntry(term, item)
             prev_log_index == LogLen(I.state.log)
             prev_log_term == IF prev_log_index > 1
                              THEN LogGet(I.state.log, prev_log_index).term
                              ELSE 0
             r == AppendEntries(I.state.log, prev_log_index, prev_log_term, << entry >>)
         IN  IF ~r.ok THEN Panic(I)   \* append_entries(..)? returns the Err, run unwraps it
             ELSE SendAppendEntriesFrom([I EXCEPT !.state.log = r.log], 0)
(***************************************************************************)
(* The state after RaftServer::new, and the event loop.                    *)
(***************************************************************************)
\* the RaftState that RaftServer::new builds
RaftStateNew(n) ==
    [node_id |-> n, network_size |-> NetworkSize, mode |-> "Follower",
     current_term |-> 0, current_leader |-> None, voted_for |-> None,
     log |-> RaftLogNew, commit_index |-> 0, last_applied |-> 0,
     next_index |-> [p \in Nodes |-> 1], match_index |-> [p \in Nodes |-> 0]]

Idle == [node |-> 0, peer |-> 0, ev |-> [type |-> "Idle"], pre |-> RaftStateNew(0),
         send_failed |-> FALSE, remove_failed |-> FALSE]

\* RaftServer::new on every node of srv; when leader0, node 0 is then put in
\* Leader mode as the tests do: update_state(&mut leader, |state| state.mode = Mode::Leader)
InitWith(srv, vot, leader0) ==
    /\ servers = srv
    /\ voters = vot
    /\ state = [n \in Nodes |->
                  IF n = 0 /\ leader0
                  THEN [RaftStateNew(n) EXCEPT !.mode = "Leader"]
                  ELSE RaftStateNew(n)]
    /\ timers = [n \in Nodes |-> DelayQueueNew]
    /\ heartbeat_delay = [n \in Nodes |-> [p \in Nodes |-> None]]
    /\ election_timeout = [n \in Nodes |-> None]
    /\ status = [n \in Nodes |-> "running"]
    /\ inbox = [n \in Nodes |-> << >>]
    /\ out = << >>
    /\ granted = [n \in Nodes |-> {}]
    /\ hist = Idle

\* the messages a bare node can send
LogEntries == { LogEntry(t, c) : t \in EntryTerms, c \in Commands }
EntrySeqs == UNION { [1 .. k -> LogEntries] : k \in 0 .. MaxEntries }
\* prev_log_index, prev_log_term: the term of index 0 is 0
PrevPairs == { << 0, 0 >> } \cup ((1 .. MaxLog) \X EntryTerms)
PeerMessages ==
  [src \in Nodes |->
    { AppendEntriesReq(t, src, pp[1], pp[2], es, lc) :
        t \in Terms, pp \in PrevPairs, es \in EntrySeqs, lc \in Indices }
    \cup { AppendEntriesRep(t, ni, ok) : t \in Terms, ni \in Indices, ok \in BOOLEAN }
    \cup { RequestVoteReq(t, src, li, lt) : t \in Terms, li \in 0 .. MaxLog, lt \in EntryTerms }
    \cup { RequestVoteRep(t, ok) : t \in Terms, ok \in BOOLEAN }
    \cup { [type |-> "Malformed"] }]

\* the caps that keep the state space finite
WithinBounds(I) ==
    /\ I.state.current_term <= MaxTerm
    /\ LogLen(I.state.log) <= MaxLog
    /\ Len(I.timers[CallElection])
         <= (IF servers = {0, 1} THEN MaxPairElectionTimers ELSE MaxElectionTimers)

RECURSIVE Transport(_, _, _)
\* node.send(dst, msg) for each entry of sent, in order: a message for a server
\* joins its inbound queue, a message for a bare node leaves the model
Transport(box, from, sent) ==
    IF sent = << >> THEN box
    ELSE LET s == Head(sent)
             box1 == IF s.dst \in servers
                     THEN [box EXCEPT ![s.dst] = Append(@, [peer |-> from, msg |-> s.msg])]
                     ELSE box
         IN  Transport(box1, from, Tail(sent))

\* the votes of the replies in sent, added to the votes already granted at that term
Votes(old, sent) ==
    LET new == { << sent[i].msg.term, sent[i].dst >> :
                   i \in { j \in 1 .. Len(sent) :
                             sent[j].msg.type = "RequestVoteRep" /\ sent[j].msg.vote_granted } }
    IN  IF new = {} THEN old
        ELSE new \cup { v \in old : \E w \in new : w[1] = v[1] }

\* the end of one iteration of the loop of run: I is the RaftServerInner after
\* the handler, box the inbound queues after the event was taken
Finish(n, I, box, peer, ev) ==
    /\ hist = Idle
    /\ I.panicked \/ WithinBounds(I)
    /\ LET box1 == Transport(box, n, I.sent)
       IN  /\ \A d \in Nodes : Len(box1[d]) <= MaxInbox
           /\ inbox' = box1
    /\ IF I.panicked
       THEN /\ status' = [status EXCEPT ![n] = "panicked"]
            /\ UNCHANGED << state, timers, heartbeat_delay, election_timeout >>
       ELSE /\ state' = [state EXCEPT ![n] = I.state]
            /\ timers' = [timers EXCEPT ![n] = [t \in TimerValues |-> Ranked(I.timers[t])]]
            /\ heartbeat_delay' = [heartbeat_delay EXCEPT ![n] =
                   [p \in Nodes |-> Renamed(I.timers[FollowerUpdate(p)], I.heartbeat_delay[p])]]
            /\ election_timeout' = [election_timeout EXCEPT ![n] =
                   Renamed(I.timers[CallElection], I.election_timeout)]
            /\ UNCHANGED status
    /\ out' = I.sent
    /\ granted' = IF n \in voters THEN [granted EXCEPT ![n] = Votes(@, I.sent)] ELSE granted
    /\ hist' = [node |-> n, peer |-> peer, ev |-> ev, pre |-> state[n],
                send_failed |-> I.send_failed, remove_failed |-> I.remove_failed]
    /\ UNCHANGED << servers, voters >>

\* r = self.node.recv(): the next message of the inbound queue
RecvFromServer(n) ==
    /\ status[n] = "running"
    /\ inbox[n] # << >>
    /\ LET e == Head(inbox[n])
       IN  Finish(n, handle_message(Inner(n), e.peer, e.msg),
                  [inbox EXCEPT ![n] = Tail(@)], e.peer, e.msg)

\* the bare node that sends: the one of the lowest id, as the LocalNode of node 1
\* in test::two_node_network; the other bare nodes are silent
Senders == { p \in Nodes \ servers : \A q \in Nodes \ servers : p <= q }

\* r = self.node.recv(): a message that a bare node sends
RecvFromPeer(n) ==
    /\ status[n] = "running"
    /\ \E src \in Senders : \E m \in PeerMessages[src] :
           Finish(n, handle_message(Inner(n), src, m), inbox, src, m)

\* Some(t) = self.timers.next(): the oldest pending timer of some value expires
TimerExpires(n) ==
    /\ status[n] = "running"
    /\ \E t \in TimerValues :
         /\ timers[n][t] # << >>
         /\ LET I == [Inner(n) EXCEPT !.timers = TimersRemove(@, t, Head(timers[n][t]))]
            IN  Finish(n, handle_timer(I, t), inbox, n, [type |-> "Timer", timer |-> t])

\* RaftServer::add: Ok(self.control_tx.send(Control::Add(item)).await?), the
\* result of the send into the control channel, which is open while run loops
add(st) == IF st = "running" THEN "Ok" ELSE "SendError"

\* r = self.control_rx.recv() with Control::Add(item); result is what the
\* caller of add got
ControlAdd(n) ==
    /\ status[n] = "running"
    /\ \E item \in Commands :
           Finish(n, HandleControlAdd(Inner(n), item), inbox, n,
                  [type |-> "Add", item |-> item, result |-> add(status[n])])

\* RaftServer::stop: control_tx.send(Control::Stop).await.unwrap(), then
\* task.await.unwrap(); the channel is closed and the task has failed once run
\* has panicked
stop(st) == IF st = "running" THEN "Ok" ELSE "Panic"

\* r = self.control_rx.recv() with Control::Stop: run breaks out of the loop
ControlStop(n) ==
    /\ hist = Idle
    /\ status[n] = "running"
    /\ status' = [status EXCEPT ![n] = "stopped"]
    /\ out' = << >>
    /\ hist' = [node |-> n, peer |-> n, ev |-> [type |-> "Stop"], pre |-> state[n],
                send_failed |-> FALSE, remove_failed |-> FALSE]
    /\ UNCHANGED << servers, voters, state, timers, heartbeat_delay, election_timeout,
                    inbox, granted >>

\* the RaftServerInner of a server whose node.send returns an Err
Failing(n) == [Inner(n) EXCEPT !.send_err = TRUE]

\* one iteration of the loop of run in which the handler's first node.send fails
SendFails(n) ==
    /\ hist = Idle
    /\ status[n] = "running"
    /\ \/ /\ inbox[n] # << >>
          /\ LET e == Head(inbox[n])
                 I == handle_message(Failing(n), e.peer, e.msg)
             IN  I.send_failed
                 /\ Finish(n, I, [inbox EXCEPT ![n] = Tail(@)], e.peer, e.msg)
       \/ \E src \in Senders : \E m \in PeerMessages[src] :
             LET I == handle_message(Failing(n), src, m)
             IN  I.send_failed /\ Finish(n, I, inbox, src, m)
       \/ \E t \in TimerValues :
             /\ timers[n][t] # << >>
             /\ LET I == handle_timer(
                            [Failing(n) EXCEPT !.timers = TimersRemove(@, t, Head(timers[n][t]))], t)
                IN  I.send_failed
                    /\ Finish(n, I, inbox, n, [type |-> "Timer", timer |-> t])
       \/ \E item \in Commands :
             LET I == HandleControlAdd(Failing(n), item)
             IN  I.send_failed
                 /\ Finish(n, I, inbox, n,
                           [type |-> "Add", item |-> item, result |-> add(status[n])])

\* loop { tokio::select! { .. } }: the next iteration of the loop of run
Loop ==
    /\ hist # Idle
    /\ hist' = Idle
    /\ out' = << >>
    /\ UNCHANGED << servers, voters, state, timers, heartbeat_delay, election_timeout,
                    status, inbox, granted >>

(***************************************************************************)
(* Spec: one server, node 0, among bare nodes that send it any message.    *)
(***************************************************************************)
Init == \E leader0 \in BOOLEAN : InitWith({0}, {}, leader0)

Next ==
    \/ \E n \in servers :
          \/ RecvFromServer(n)
          \/ RecvFromPeer(n)
          \/ TimerExpires(n)
          \/ ControlAdd(n)
          \/ ControlStop(n)
    \/ Loop

Spec == Init /\ [][Next]_vars

(***************************************************************************)
(* SpecNet: Spec on a network whose sends may fail.                        *)
(***************************************************************************)
NextNet ==
    \/ Next
    \/ \E n \in servers : SendFails(n)

SpecNet == Init /\ [][NextNet]_vars

(***************************************************************************)
(* SpecBackpressure: Spec with the node.send that suspends. A send to a    *)
(* server whose inbound queue is full suspends the handler until the queue *)
(* has room. Next takes such an event once all its sends fit; SendSuspends *)
(* is the case in which the full queue is the sender's own, which only the *)
(* suspended loop could drain.                                             *)
(***************************************************************************)
RECURSIVE BlockedOn(_, _)
\* the destination of the first send of sent that finds a full queue
BlockedOn(box, sent) ==
    IF sent = << >> THEN None
    ELSE LET s == Head(sent)
         IN  IF s.dst \notin servers THEN BlockedOn(box, Tail(sent))
             ELSE IF Len(box[s.dst]) >= MaxInbox THEN Some(s.dst)
             ELSE BlockedOn([box EXCEPT ![s.dst] = Append(@, s.msg)], Tail(sent))

RECURSIVE SentBefore(_, _)
\* the sends of sent that complete before the one that suspends
SentBefore(box, sent) ==
    IF sent = << >> THEN << >>
    ELSE LET s == Head(sent)
         IN  IF s.dst \notin servers THEN << s >> \o SentBefore(box, Tail(sent))
             ELSE IF Len(box[s.dst]) >= MaxInbox THEN << >>
             ELSE << s >> \o SentBefore([box EXCEPT ![s.dst] = Append(@, s.msg)], Tail(sent))

\* the handler of ev is suspended in self.node.send(n, msg) on the full
\* inbound queue of n itself
Suspend(n, I, peer, ev) ==
    /\ BlockedOn(inbox, I.sent) = Some(n)
    /\ status' = [status EXCEPT ![n] = "suspended"]
    /\ inbox' = Transport(inbox, n, SentBefore(inbox, I.sent))
    /\ out' = SentBefore(inbox, I.sent)
    /\ hist' = [node |-> n, peer |-> peer, ev |-> ev, pre |-> state[n],
                send_failed |-> FALSE, remove_failed |-> FALSE]
    /\ UNCHANGED << servers, voters, state, timers, heartbeat_delay, election_timeout,
                    granted >>

\* one iteration of the loop of run whose handler sends to the node's own
\* id while its inbound queue is full
SendSuspends(n) ==
    /\ hist = Idle
    /\ status[n] = "running"
    /\ Len(inbox[n]) >= MaxInbox
    /\ \/ \E src \in Senders : \E m \in PeerMessages[src] :
             Suspend(n, handle_message(Inner(n), src, m), src, m)
       \/ \E t \in TimerValues :
             /\ timers[n][t] # << >>
             /\ Suspend(n, handle_timer(
                               [Inner(n) EXCEPT !.timers = TimersRemove(@, t, Head(timers[n][t]))], t),
                        n, [type |-> "Timer", timer |-> t])
       \/ \E item \in Commands :
             Suspend(n, HandleControlAdd(Inner(n), item), n,
                     [type |-> "Add", item |-> item, result |-> add(status[n])])

NextBackpressure ==
    \/ Next
    \/ \E n \in servers : SendSuspends(n)

SpecBackpressure == Init /\ [][NextBackpressure]_vars

(***************************************************************************)
(* SpecCluster: every node runs the server; node 0 starts as the leader.   *)
(***************************************************************************)
InitCluster == InitWith(Nodes, Nodes, TRUE)

NextCluster ==
    \/ \E n \in servers :
          \/ RecvFromServer(n)
          \/ TimerExpires(n)
          \/ ControlAdd(n)
          \/ ControlStop(n)
    \/ Loop

SpecCluster == InitCluster /\ [][NextCluster]_vars

(***************************************************************************)
(* SpecSetState: one server, node 0, that the test fixture puts in Leader  *)
(* mode with a current_term and a log of its choice (Control::SetState, as *)
(* test::update_state does before a test sends anything).                  *)
(***************************************************************************)
Logs == UNION { [1 .. k -> LogEntries] : k \in 0 .. MaxLog }

\* the RaftState after update_state(&mut leader, |state| { state.mode = Mode::Leader;
\* state.log = ..; state.current_term = ..; })
SetStates ==
    { [RaftStateNew(0) EXCEPT !.mode = "Leader", !.current_term = t, !.log = l] :
        t \in Terms, l \in Logs }

InitSetState ==
    /\ servers = {0}
    /\ voters = {}
    /\ state \in { [n \in Nodes |-> IF n = 0 THEN st ELSE RaftStateNew(n)] : st \in SetStates }
    /\ timers = [n \in Nodes |-> DelayQueueNew]
    /\ heartbeat_delay = [n \in Nodes |-> [p \in Nodes |-> None]]
    /\ election_timeout = [n \in Nodes |-> None]
    /\ status = [n \in Nodes |-> "running"]
    /\ inbox = [n \in Nodes |-> << >>]
    /\ out = << >>
    /\ granted = [n \in Nodes |-> {}]
    /\ hist = Idle

SpecSetState == InitSetState /\ [][Next]_vars

(***************************************************************************)
(* SpecClusterSetState: every node runs the server; the test fixture puts  *)
(* node 0 in Leader mode with a current_term and a log of entries of       *)
(* earlier terms, as a leader elected at that term would hold.             *)
(***************************************************************************)
Sorted(l) == \A i \in 1 .. Len(l) : \A j \in 1 .. Len(l) : i < j => l[i].term <= l[j].term

ElectedStates ==
    { st \in SetStates :
        /\ Sorted(st.log)
        /\ \A i \in 1 .. Len(st.log) : st.log[i].term < st.current_term }

InitClusterSetState ==
    /\ servers = Nodes
    /\ voters = Nodes
    /\ state \in { [n \in Nodes |-> IF n = 0 THEN st ELSE RaftStateNew(n)] : st \in ElectedStates }
    /\ timers = [n \in Nodes |-> DelayQueueNew]
    /\ heartbeat_delay = [n \in Nodes |-> [p \in Nodes |-> None]]
    /\ election_timeout = [n \in Nodes |-> None]
    /\ status = [n \in Nodes |-> "running"]
    /\ inbox = [n \in Nodes |-> << >>]
    /\ out = << >>
    /\ granted = [n \in Nodes |-> {}]
    /\ hist = Idle

SpecClusterSetState == InitClusterSetState /\ [][NextCluster]_vars

(***************************************************************************)
(* SpecChangeMode: a new server, node 0, up to the call                    *)
(* change_mode(Mode::Leader), which the code defines twice (the method and *)
(* the function over Actions) and no handler makes yet; the call is        *)
(* applied to the server in any state it reaches as Follower or Candidate; *)
(* the server that became Leader handles the timers that expire on it.     *)
(***************************************************************************)
\* change_mode(state, &mut actions, Mode::Leader), then execute_actions(actions)
PureChangeModeLeader(I) ==
    LET S == pure_change_mode([state |-> I.state, actions |-> << >>, panicked |-> FALSE],
                              "Leader")
    IN  IF S.panicked THEN Panic(I)
        ELSE execute_actions([I EXCEPT !.state = S.state], S.actions)

\* self.change_mode(Mode::Leader).await?, or its counterpart over Actions
ChangeModeLeader(n) ==
    /\ status[n] = "running"
    /\ state[n].mode # "Leader"
    /\ \E pure \in BOOLEAN :
          Finish(n, IF pure THEN PureChangeModeLeader(Inner(n))
                            ELSE change_mode(Inner(n), "Leader"),
                 inbox, n, [type |-> "ChangeMode", new_mode |-> "Leader", pure |-> pure])

\* the run of a new server up to its change to Leader, and the timers that
\* expire on it afterwards
NextChangeMode ==
    \/ \E n \in servers :
          \/ /\ state[n].mode # "Leader"
             /\ \/ RecvFromServer(n)
                \/ RecvFromPeer(n)
                \/ ChangeModeLeader(n)
          \/ TimerExpires(n)
    \/ Loop

SpecChangeMode == InitWith({0}, {}, FALSE) /\ [][NextChangeMode]_vars

(***************************************************************************)
(* SpecPair: nodes 0 and 1 run the server. Node 0 is a Leader as the test  *)
(* fixture sets one up, with a current_term, a log of entries of earlier   *)
(* terms and next_index as the Leader entry of change_mode leaves it.      *)
(* Node 2 is a bare node, a Leader of an earlier time, whose               *)
(* AppendEntriesReq still reach node 1.                                    *)
(***************************************************************************)
\* for peer in 0..network_size { next_index[peer] = log.len() + 1; match_index[peer] = 0 }
EnteredStates ==
    { [st EXCEPT !.next_index = [p \in Nodes |-> LogLen(st.log) + 1],
                 !.current_leader = Some(0)] : st \in ElectedStates }

InitPair ==
    /\ servers = {0, 1}
    /\ voters = {}
    /\ state \in { [n \in Nodes |-> IF n = 0 THEN st ELSE RaftStateNew(n)] : st \in EnteredStates }
    /\ timers = [n \in Nodes |-> DelayQueueNew]
    /\ heartbeat_delay = [n \in Nodes |-> [p \in Nodes |-> None]]
    /\ election_timeout = [n \in Nodes |-> None]
    /\ status = [n \in Nodes |-> "running"]
    /\ inbox = [n \in Nodes |-> << >>]
    /\ out = << >>
    /\ granted = [n \in Nodes |-> {}]
    /\ hist = Idle

\* the AppendEntriesReq of the bare node
OldLeaderMessages ==
    { AppendEntriesReq(t, 2, pp[1], pp[2], es, 0) :
        t \in Terms, pp \in PrevPairs, es \in EntrySeqs }

\* r = self.node.recv(): an AppendEntriesReq that the bare node sent
RecvFromOldLeader(n) ==
    /\ status[n] = "running"
    /\ \E m \in OldLeaderMessages :
           Finish(n, handle_message(Inner(n), 2, m), inbox, 2, m)

NextPair ==
    \/ \E n \in servers :
          \/ RecvFromServer(n)
          \/ TimerExpires(n)
          \/ ControlAdd(n)
    \/ RecvFromOldLeader(1)
    \/ Loop

SpecPair == InitPair /\ [][NextPair]_vars
(***************************************************************************)
(* The event of hist: the server that handled it, its RaftState before and *)
(* after, and whether the handler returned.                                *)
(***************************************************************************)
Ev == hist.ev
Pre == hist.pre
Post == state[hist.node]
Returned == hist # Idle /\ status[hist.node] = "running"
Received(type) == Returned /\ Ev.type = type
IsMessage ==
    Ev.type \in { "AppendEntriesReq", "AppendEntriesRep", "RequestVoteReq", "RequestVoteRep" }

\* the nodes whose last granted vote is for candidate c
VotersOf(c) == { v \in voters : \E w \in granted[v] : w[2] = c }
Majority == (NetworkSize \div 2) + 1

(***************************************************************************)
(* C1. A node votes for at most one candidate per term: the votes a node   *)
(* granted while its current_term was t all name one candidate.            *)
(***************************************************************************)
C1_OneVotePerTerm ==
    \A n \in voters : \A v \in granted[n] : \A w \in granted[n] :
        v[1] = w[1] => v[2] = w[2]

(***************************************************************************)
(* C2. Election Safety: never two distinct nodes in Leader mode with the   *)
(* same current_term.                                                      *)
(***************************************************************************)
C2_ElectionSafety ==
    \A a \in servers : \A b \in servers :
        (a # b /\ state[a].mode = "Leader" /\ state[b].mode = "Leader")
            => state[a].current_term # state[b].current_term

\* a leader exists while a candidate holds the granted votes of a majority
C2_Witness ==
    \E a \in servers : \E c \in servers :
        /\ a # c
        /\ state[a].mode = "Leader" /\ status[a] = "running"
        /\ state[c].mode = "Candidate" /\ status[c] = "running"
        /\ Cardinality(VotersOf(c)) >= Majority

(***************************************************************************)
(* C4. current_term never decreases: after every event of a server, its    *)
(* current_term is at least what it was before the event.                  *)
(***************************************************************************)
C4_TermMonotonic ==
    Returned => Post.current_term >= Pre.current_term

\* the term grew by a message, and a request of a lower term was then handled
C4_Witness ==
    /\ Received("AppendEntriesReq")
    /\ Pre.mode # "Leader"
    /\ Ev.term < Pre.current_term
    /\ AppendOk(Pre.log, Ev.prev_log_index, Ev.prev_log_term)

(***************************************************************************)
(* C5. After every event, last_applied <= commit_index <= log.len().       *)
(***************************************************************************)
C5_CommitWithinLog ==
    \A n \in servers :
        /\ state[n].last_applied <= state[n].commit_index
        /\ state[n].commit_index <= LogLen(state[n].log)

(***************************************************************************)
(* C6. commit_index never decreases: after every event of a server, its    *)
(* commit_index is at least what it was before the event.                  *)
(***************************************************************************)
C6_CommitMonotonic ==
    Returned => Post.commit_index >= Pre.commit_index

(***************************************************************************)
(* C7. Universal term-update rule: after a server handled a message whose  *)
(* term is greater than its current_term, its current_term is the term of  *)
(* the message and it is a Follower.                                       *)
(***************************************************************************)
C7_UniversalTermUpdate ==
    (Returned /\ IsMessage /\ Ev.term > Pre.current_term)
        => (Post.current_term = Ev.term /\ Post.mode = "Follower")

(***************************************************************************)
(* C8. When current_term grows by adopting the term of a message, voted_for*)
(* is None afterwards (no handler of a message casts a vote).              *)
(***************************************************************************)
C8_VoteResetOnNewTerm ==
    (Returned /\ IsMessage /\ Post.current_term > Pre.current_term)
        => Post.voted_for = None

(***************************************************************************)
(* C9. A Leader that receives an AppendEntriesReq of a term greater than   *)
(* its current_term becomes a Follower of that term.                       *)
(***************************************************************************)
C9_LeaderStepsDown ==
    (Received("AppendEntriesReq") /\ Pre.mode = "Leader" /\ Ev.term > Pre.current_term)
        => (Post.mode = "Follower" /\ Post.current_term = Ev.term)

(***************************************************************************)
(* C10. Stale-term rejection: a server that is no Leader and receives an   *)
(* AppendEntriesReq of a term below its current_term sends the one reply   *)
(* {term: current_term, success: false, next_index: log.len() + 1} to the  *)
(* sender, and its log, commit_index, current_term, current_leader and     *)
(* voted_for are what they were.                                           *)
(***************************************************************************)
C10_StaleTermRejected ==
    (Received("AppendEntriesReq") /\ Pre.mode # "Leader" /\ Ev.term < Pre.current_term)
        => /\ out = << [dst |-> hist.peer,
                        msg |-> AppendEntriesRep(Pre.current_term, LogLen(Pre.log) + 1, FALSE)] >>
           /\ Post.log = Pre.log
           /\ Post.commit_index = Pre.commit_index
           /\ Post.current_term = Pre.current_term
           /\ Post.current_leader = Pre.current_leader
           /\ Post.voted_for = Pre.voted_for

\* a stale request that would apply to the log and raise commit_index
C10_Witness ==
    /\ Received("AppendEntriesReq")
    /\ Pre.mode # "Leader"
    /\ Ev.term < Pre.current_term
    /\ AppendOk(Pre.log, Ev.prev_log_index, Ev.prev_log_term)
    /\ Ev.entries # << >>
    /\ Ev.leader_commit > Pre.commit_index
    /\ Pre.log # << >>

\* the one message the handler sent, when it sent exactly one to the sender
OneReply == Len(out) = 1 /\ out[1].dst = hist.peer
\* an AppendEntriesReq that a node which is no Leader handles, of a term that
\* is not below its current_term
Current == Received("AppendEntriesReq") /\ Pre.mode # "Leader" /\ Ev.term >= Pre.current_term

(***************************************************************************)
(* C11. Log-mismatch rejection: a server that is no Leader and receives an *)
(* AppendEntriesReq of a term >= current_term with prev_log_index > 0      *)
(* beyond its log, or at an entry of another term than prev_log_term,      *)
(* replies success = false with next_index = log.len() + 1 and keeps its   *)
(* log and commit_index.                                                   *)
(***************************************************************************)
C11_LogMismatchRejected ==
    (/\ Current
     /\ Ev.prev_log_index > 0
     /\ \/ Ev.prev_log_index > LogLen(Pre.log)
        \/ LogGet(Pre.log, Ev.prev_log_index).term # Ev.prev_log_term)
        => /\ OneReply
           /\ out[1].msg.type = "AppendEntriesRep"
           /\ out[1].msg.success = FALSE
           /\ out[1].msg.next_index = LogLen(Pre.log) + 1
           /\ Post.log = Pre.log
           /\ Post.commit_index = Pre.commit_index

\* an entry of another term at prev_log_index, in a request that carries
\* entries and a leader_commit above commit_index
C11_Witness ==
    /\ Current
    /\ Ev.prev_log_index > 0
    /\ Ev.prev_log_index <= LogLen(Pre.log)
    /\ LogGet(Pre.log, Ev.prev_log_index).term # Ev.prev_log_term
    /\ Ev.entries # << >>
    /\ Ev.leader_commit > Pre.commit_index

(***************************************************************************)
(* C12. Successful replication: after a Follower handled an                *)
(* AppendEntriesReq of a term >= current_term whose prev_log_index and     *)
(* prev_log_term match its log, its log is its first prev_log_index        *)
(* entries then the entries of the request, current_term is the term of    *)
(* the request, current_leader is Some(leader), commit_index is            *)
(* min(leader_commit, log.len()) if leader_commit was above it and is      *)
(* unchanged otherwise, and the reply is {term: current_term, success:     *)
(* true, next_index: log.len() + 1}.                                       *)
(***************************************************************************)
C12_SuccessfulReplication ==
    (/\ Current
     /\ Pre.mode = "Follower"
     /\ \/ Ev.prev_log_index = 0
        \/ /\ Ev.prev_log_index <= LogLen(Pre.log)
           /\ LogGet(Pre.log, Ev.prev_log_index).term = Ev.prev_log_term)
        => /\ Post.log = SubSeq(Pre.log, 1, Ev.prev_log_index) \o Ev.entries
           /\ Post.current_term = Ev.term
           /\ Post.current_leader = Some(Ev.leader)
           /\ Post.commit_index =
                 IF Ev.leader_commit > Pre.commit_index
                 THEN (IF Ev.leader_commit <= Len(Post.log)
                       THEN Ev.leader_commit ELSE Len(Post.log))
                 ELSE Pre.commit_index
           /\ out = << [dst |-> hist.peer,
                        msg |-> AppendEntriesRep(Post.current_term, Len(Post.log) + 1, TRUE)] >>

\* a request of a higher term that replaces the tail of the log and carries a
\* leader_commit beyond the new log
C12_Witness ==
    /\ Current
    /\ Pre.mode = "Follower"
    /\ Ev.term > Pre.current_term
    /\ Ev.prev_log_index > 0
    /\ Ev.prev_log_index < LogLen(Pre.log)
    /\ LogGet(Pre.log, Ev.prev_log_index).term = Ev.prev_log_term
    /\ Ev.entries # << >>
    /\ Ev.leader_commit > Len(Post.log)
    /\ Ev.leader_commit > Pre.commit_index

(***************************************************************************)
(* C13. Submit on a Leader always succeeds locally: after a Leader, of any *)
(* log and current_term, handled Control::Add(item), its log is the log it *)
(* had then the one entry {term: current_term, item}, and run still loops. *)
(***************************************************************************)
C13_LeaderAddSucceeds ==
    (hist # Idle /\ Ev.type = "Add" /\ Pre.mode = "Leader")
        => /\ status[hist.node] = "running"
           /\ Post.log = Append(Pre.log, LogEntry(Pre.current_term, Ev.item))

(***************************************************************************)
(* C14. A submit to a server that is no Leader is rejected to the caller:  *)
(* the result of add is a NotLeader error.                                 *)
(***************************************************************************)
C14_NotLeaderRejected ==
    (hist # Idle /\ Ev.type = "Add" /\ Pre.mode # "Leader")
        => Ev.result = "NotLeader"

\* an AppendEntriesRep, of a term that is not above current_term, that a
\* Leader handles
RepToLeader(success) ==
    /\ hist # Idle
    /\ Ev.type = "AppendEntriesRep"
    /\ Pre.mode = "Leader"
    /\ Ev.success = success
    /\ Ev.term <= Pre.current_term

\* the RaftState after the bookkeeping of a successful reply
Booked == [Pre EXCEPT !.next_index[hist.peer] = Ev.next_index,
                      !.match_index[hist.peer] = Ev.next_index - 1]

Retried ==
    LET lower == IF Pre.next_index[hist.peer] - 1 <= Ev.next_index
                 THEN Pre.next_index[hist.peer] - 1 ELSE Ev.next_index
    IN  IF lower >= 1 THEN lower ELSE 1

\* what C16 states of the event that hist holds
RetrySent ==
    /\ status[hist.node] = "running"
    /\ Post = [Pre EXCEPT !.next_index[hist.peer] = Retried]
    /\ OneReply
    /\ out[1].msg.type = "AppendEntriesReq"
    /\ out[1].msg.prev_log_index = Retried - 1
    /\ out[1].msg.entries = SubSeq(Pre.log, Retried, Len(Pre.log))
    /\ IsSome(heartbeat_delay[hist.node][hist.peer])
    /\ timers[hist.node][FollowerUpdate(hist.peer)]
           = << Unwrap(heartbeat_delay[hist.node][hist.peer]) >>

C17_LeaderIndexInvariant ==
    \A n \in servers :
        (state[n].mode = "Leader" /\ status[n] = "running")
            => \A p \in Nodes :
                 /\ state[n].next_index[p] >= 1
                 /\ state[n].next_index[p] <= LogLen(state[n].log) + 1
                 /\ state[n].match_index[p] < state[n].next_index[p]

\* the term of the last entry of the log of Pre, 0 for an empty log
LastTerm == IF Pre.log = << >> THEN 0 ELSE Pre.log[Len(Pre.log)].term

(***************************************************************************)
(* C18. Vote granting rule: the reply to RequestVoteReq {term,             *)
(* candidate_id, last_log_index, last_log_term} goes to candidate_id with  *)
(* vote_granted = true iff term >= current_term, and voted_for is None or  *)
(* candidate_id, and last_log_term is above the term of the last entry of  *)
(* the log, or equal to it with last_log_index >= log.len().               *)
(***************************************************************************)
C18_VoteGrantingRule ==
    Received("RequestVoteReq")
        => /\ Len(out) = 1
           /\ out[1].dst = Ev.candidate_id
           /\ out[1].msg.type = "RequestVoteRep"
           /\ out[1].msg.vote_granted
                <=> /\ Ev.term >= Pre.current_term
                    /\ (Pre.voted_for = None \/ Pre.voted_for = Some(Ev.candidate_id))
                    /\ \/ Ev.last_log_term > LastTerm
                       \/ (Ev.last_log_term = LastTerm /\ Ev.last_log_index >= Len(Pre.log))

\* a request refused for its shorter log alone
C18_Witness ==
    /\ Received("RequestVoteReq")
    /\ Ev.term >= Pre.current_term
    /\ Pre.voted_for = None
    /\ Pre.log # << >>
    /\ Ev.last_log_term = LastTerm
    /\ Ev.last_log_index < Len(Pre.log)
    /\ out # << >>
    /\ ~out[1].msg.vote_granted

\* the indices above the commit_index of Pre whose entry is of current_term and
\* that a majority of the nodes, the Leader itself among them, hold
Committable ==
    { N \in 1 .. Len(Post.log) :
        /\ N > Pre.commit_index
        /\ Post.log[N].term = Post.current_term
        /\ Cardinality({ p \in Nodes : p = hist.node \/ Post.match_index[p] >= N })
              >= Majority }

(***************************************************************************)
(* C19. Leader commit advancement: after a Leader handled a successful     *)
(* AppendEntriesRep, if some index N > commit_index has an entry of        *)
(* current_term and match_index >= N on a majority of the nodes, the       *)
(* Leader counted, then commit_index is the largest such N.                *)
(***************************************************************************)
C19_LeaderCommitAdvances ==
    (/\ Received("AppendEntriesRep")
     /\ Pre.mode = "Leader"
     /\ Ev.success
     /\ Committable # {})
        => (Post.commit_index \in Committable
            /\ \A N \in Committable : N <= Post.commit_index)

(***************************************************************************)
(* C20. A Candidate becomes Leader on the vote that gives it a majority:   *)
(* where its own vote and the vote of one peer are a majority, after a     *)
(* Candidate handled RequestVoteRep {vote_granted: true, term:             *)
(* current_term} of a peer, it is a Leader.                                *)
(***************************************************************************)
C20_MajorityElects ==
    (/\ Received("RequestVoteRep")
     /\ Pre.mode = "Candidate"
     /\ Ev.vote_granted
     /\ Ev.term = Pre.current_term
     /\ hist.peer # hist.node
     /\ Cardinality({ hist.node, hist.peer }) >= Majority)
        => Post.mode = "Leader"

(***************************************************************************)
(* C21. stop always succeeds: in every state of a server that was not      *)
(* stopped, whatever it received before, stop() returns normally.          *)
(***************************************************************************)
C21_StopSucceeds ==
    \A n \in servers : status[n] # "stopped" => stop(status[n]) = "Ok"

(***************************************************************************)
(* C22. Malformed inbound bytes are dropped: after a server received bytes *)
(* that are no Message, its RaftState is what it was, it sent nothing and  *)
(* run still loops.                                                        *)
(***************************************************************************)
C22_MalformedDropped ==
    (hist # Idle /\ Ev.type = "Malformed")
        => /\ status[hist.node] = "running"
           /\ Post = Pre
           /\ out = << >>

(***************************************************************************)
(* C23. A failed send is dropped without stopping the server: after an     *)
(* event in which node.send returned an error, run still loops.            *)
(***************************************************************************)
C23_SendFailureDropped ==
    (hist # Idle /\ hist.send_failed) => status[hist.node] = "running"

(***************************************************************************)
(* C24. Log terms are non-decreasing: in a cluster whose AppendEntriesReq  *)
(* all come from its nodes, for all 1 <= i < j <= log.len() of every node, *)
(* log.get(i).term <= log.get(j).term.                                     *)
(***************************************************************************)
C24_LogTermsNonDecreasing ==
    \A n \in servers :
        \A i \in 1 .. Len(state[n].log) : \A j \in 1 .. Len(state[n].log) :
            i < j => state[n].log[i].term <= state[n].log[j].term

\* a follower that holds entries of two terms, replicated from the leader
C24_Witness ==
    \E n \in servers :
        /\ state[n].mode = "Follower"
        /\ Len(state[n].log) >= 2
        /\ state[n].log[1].term < state[n].log[2].term

(***************************************************************************)
(* C25. An empty heartbeat is a log no-op: when a Follower accepts an      *)
(* AppendEntriesReq with no entries whose prev_log_index and prev_log_term *)
(* match (prev_log_index = 0 and prev_log_index < log.len() included), its *)
(* log is what it was, and commit_index becomes                            *)
(* min(leader_commit, log.len()) when leader_commit > commit_index.        *)
(***************************************************************************)
Heartbeat ==
    /\ Current
    /\ Pre.mode = "Follower"
    /\ Ev.entries = << >>
    /\ AppendOk(Pre.log, Ev.prev_log_index, Ev.prev_log_term)
C25_EmptyHeartbeatNoOp ==
    Heartbeat
        => /\ Post.log = Pre.log
           /\ (Ev.leader_commit > Pre.commit_index
                 => Post.commit_index = Min(Ev.leader_commit, LogLen(Pre.log)))
\* a heartbeat at the tail of the log
C25_HeartbeatAtTail ==
    (Heartbeat /\ Ev.prev_log_index = LogLen(Pre.log)) => Post.log = Pre.log

(***************************************************************************)
(* C26. At most one election timer is outstanding per node: after every    *)
(* event the DelayQueue of a node holds at most one pending CallElection   *)
(* timer, also after a Follower handled several AppendEntriesReq in a row. *)
(***************************************************************************)
C26_OneElectionTimer ==
    \A n \in servers : Len(timers[n][CallElection]) <= 1

(***************************************************************************)
(* C27. Resetting the election timer cancels the previous one: the         *)
(* CallElection timer that expires on a Follower is the one                *)
(* election_timeout names, the timer armed last; a timer armed before the  *)
(* Follower last handled an AppendEntriesReq never fires, so a Follower    *)
(* that heard from its leader since does not become Candidate.             *)
(***************************************************************************)
ElectionTimerFires ==
    /\ hist = Idle
    /\ hist' # Idle
    /\ hist'.ev.type = "Timer"
    /\ hist'.ev.timer = CallElection
    /\ hist'.pre.mode = "Follower"
C27_ResetCancelsPrevious ==
    [][ElectionTimerFires
         => election_timeout[hist'.node] = Some(Head(timers[hist'.node][CallElection]))]_vars

(***************************************************************************)
(* C28. Starting an election: when a CallElection timer expires on a       *)
(* Follower or a Candidate, the node ends the event as a Candidate whose   *)
(* current_term is one greater than before and whose voted_for is its own  *)
(* id, with an election timer armed; every RequestVoteReq it sent carries  *)
(* the new current_term, its own id as candidate_id, last_log_index =      *)
(* log.len() and last_log_term = the term of its last entry (0 when the    *)
(* log is empty).                                                          *)
(***************************************************************************)
ElectionTimerExpired ==
    /\ hist # Idle
    /\ Ev.type = "Timer"
    /\ Ev.timer = CallElection
    /\ Pre.mode \in { "Follower", "Candidate" }
C28_StartElection ==
    ElectionTimerExpired
        => /\ status[hist.node] = "running"
           /\ Post.mode = "Candidate"
           /\ Post.current_term = Pre.current_term + 1
           /\ Post.voted_for = Some(hist.node)
           /\ IsSome(election_timeout[hist.node])
           /\ TimersHas(timers[hist.node], CallElection, Unwrap(election_timeout[hist.node]))
           /\ Post.log = Pre.log
           /\ \E i \in 1 .. Len(out) : out[i].msg.type = "RequestVoteReq"
           /\ \A i \in 1 .. Len(out) :
                out[i].msg = RequestVoteReq(Post.current_term, hist.node,
                                            LogLen(Pre.log), LastTerm)

\* a Candidate whose last entry has a term above 0 starts a fresh election
C28_Witness ==
    /\ ElectionTimerExpired
    /\ Pre.mode = "Candidate"
    /\ LastTerm > 0
    /\ out # << >>
\* a Follower with an empty log becomes Candidate
C28_WitnessFollower ==
    /\ ElectionTimerExpired
    /\ Pre.mode = "Follower"
    /\ Pre.log = << >>
    /\ Post.mode = "Candidate"

(***************************************************************************)
(* C29. A node never sends a RequestVoteReq to itself: the RequestVoteReq  *)
(* of an election go to every node id of 0 .. network_size - 1 other than  *)
(* the candidate's own, and to no other destination.                       *)
(***************************************************************************)
VoteRequestDsts ==
    { out[i].dst : i \in { j \in 1 .. Len(out) : out[j].msg.type = "RequestVoteReq" } }
C29_NoVoteRequestToSelf ==
    (hist # Idle /\ VoteRequestDsts # {}) => VoteRequestDsts = Nodes \ { hist.node }
\* the RequestVoteReq of an election reach every other node
C29_VoteRequestToOthers ==
    (hist # Idle /\ VoteRequestDsts # {}) => (Nodes \ { hist.node }) \subseteq VoteRequestDsts

(***************************************************************************)
(* C30. Leader entry action: right after a node changed mode to Leader,    *)
(* current_leader = Some(its own id), next_index[p] = log.len() + 1 and    *)
(* match_index[p] = 0 for every p, every AppendEntriesReq sent in the      *)
(* transition has no entries, and a heartbeat timer is armed for each peer *)
(* it sent to.                                                             *)
(***************************************************************************)
BecameLeader == hist # Idle /\ Ev.type = "ChangeMode" /\ Ev.new_mode = "Leader"
C30_LeaderEntry ==
    BecameLeader
        => /\ status[hist.node] = "running"
           /\ Post.mode = "Leader"
           /\ Post.current_leader = Some(hist.node)
           /\ \A p \in Nodes : /\ Post.next_index[p] = LogLen(Post.log) + 1
                               /\ Post.match_index[p] = 0
           /\ Post.log = Pre.log
           /\ \E i \in 1 .. Len(out) : out[i].msg.type = "AppendEntriesReq"
           /\ \A i \in 1 .. Len(out) :
                /\ out[i].msg.type = "AppendEntriesReq" => out[i].msg.entries = << >>
                /\ IsSome(heartbeat_delay[hist.node][out[i].dst])
                /\ TimersHas(timers[hist.node], FollowerUpdate(out[i].dst),
                             Unwrap(heartbeat_delay[hist.node][out[i].dst]))

\* a Candidate with entries in its log and an election timer pending becomes Leader
C30_Witness ==
    /\ BecameLeader
    /\ Pre.mode = "Candidate"
    /\ Pre.log # << >>
    /\ Len(out) = NetworkSize
\* the same through the function over Actions, from a Follower
C30_WitnessPure ==
    /\ BecameLeader
    /\ Ev.pure
    /\ Pre.mode = "Follower"
    /\ Len(out) = NetworkSize

(***************************************************************************)
(* C31. A Candidate that receives an AppendEntriesReq whose term is at     *)
(* least its current_term becomes Follower, whether or not prev_log_index  *)
(* and prev_log_term match its log.                                        *)
(***************************************************************************)
CandidateHears ==
    /\ hist # Idle
    /\ Ev.type = "AppendEntriesReq"
    /\ Pre.mode = "Candidate"
    /\ Ev.term >= Pre.current_term
C31_CandidateStepsDown == CandidateHears => Post.mode = "Follower"
\* the case in which the request matches the Candidate's log
C31_CandidateStepsDownOnMatch ==
    (CandidateHears /\ AppendOk(Pre.log, Ev.prev_log_index, Ev.prev_log_term))
        => Post.mode = "Follower"

(***************************************************************************)
(* C32. A Leader that receives an AppendEntriesRep whose term is greater   *)
(* than its current_term becomes Follower and leaves next_index and        *)
(* match_index of the sender as they were, for success = true and for      *)
(* success = false.                                                        *)
(***************************************************************************)
NewerTermReply ==
    /\ Received("AppendEntriesRep")
    /\ Pre.mode = "Leader"
    /\ Ev.term > Pre.current_term
C32_NewerTermReplyStepsDown ==
    NewerTermReply
        => /\ Post.mode = "Follower"
           /\ Post.next_index[hist.peer] = Pre.next_index[hist.peer]
           /\ Post.match_index[hist.peer] = Pre.match_index[hist.peer]
\* the case success = false
C32_NewerTermFailureStepsDown ==
    (NewerTermReply /\ ~Ev.success)
        => /\ Post.mode = "Follower"
           /\ Post.next_index = Pre.next_index
           /\ Post.match_index = Pre.match_index

(***************************************************************************)
(* C33. A rejected submit has no effect: when a node that is no Leader     *)
(* handles Control::Add, its RaftState (log, current_term, commit_index,   *)
(* next_index, match_index and the rest) and its timers are what they      *)
(* were, and it sends no message.                                          *)
(***************************************************************************)
AddRejected ==
    /\ hist = Idle
    /\ hist' # Idle
    /\ hist'.ev.type = "Add"
    /\ hist'.pre.mode # "Leader"
C33_RejectedSubmitNoEffect ==
    [][AddRejected
         => /\ state' = state
            /\ timers' = timers
            /\ heartbeat_delay' = heartbeat_delay
            /\ election_timeout' = election_timeout
            /\ status' = status
            /\ inbox' = inbox
            /\ out' = << >>]_vars

\* a Candidate with an election timer pending and an entry in its log handled an Add
C33_Witness ==
    /\ hist # Idle
    /\ Ev.type = "Add"
    /\ Pre.mode = "Candidate"
    /\ Pre.log # << >>
    /\ Post = Pre
    /\ timers[hist.node][CallElection] # << >>
    /\ out = << >>

(***************************************************************************)
(* C34. Timer cancellation is always safe: every key the node passes to    *)
(* self.timers.remove names a timer that is still pending, and after every *)
(* event election_timeout and heartbeat_delay[p] are Some only of a timer  *)
(* that is pending (one that has neither fired nor been removed).          *)
(***************************************************************************)
KeysPending(n) ==
    /\ IsSome(election_timeout[n])
         => TimersHas(timers[n], CallElection, Unwrap(election_timeout[n]))
    /\ \A p \in Nodes :
         IsSome(heartbeat_delay[n][p])
           => TimersHas(timers[n], FollowerUpdate(p), Unwrap(heartbeat_delay[n][p]))
C34_CancelPendingTimer ==
    /\ ~hist.remove_failed
    /\ \A n \in servers : KeysPending(n)

\* a Candidate cancelled its election timer on becoming Follower, after an
\* election timer had fired on it
C34_Witness ==
    /\ Received("AppendEntriesReq")
    /\ Pre.mode = "Candidate"
    /\ Post.mode = "Follower"
    /\ IsSome(election_timeout[hist.node])
\* a Leader cancelled the heartbeat timer of a peer to arm a new one
C34_WitnessHeartbeat ==
    /\ Received("Add")
    /\ Pre.mode = "Leader"
    /\ \A p \in Nodes : IsSome(heartbeat_delay[hist.node][p])
    /\ Len(Post.log) >= 2

(***************************************************************************)
(* C35. Every AppendEntriesReq a node builds (on Add, on heartbeat expiry, *)
(* on a failure reply) carries prev_log_index = next_index[peer] - 1 and   *)
(* prev_log_term = the term of the sender's own log entry at               *)
(* prev_log_index (0 when prev_log_index = 0), for every prev_log_index,   *)
(* 1 included.                                                             *)
(***************************************************************************)
RequestsSent == { i \in 1 .. Len(out) : out[i].msg.type = "AppendEntriesReq" }
C35_PrevLogTerm ==
    Returned
        => \A i \in RequestsSent :
             /\ out[i].msg.prev_log_index = Post.next_index[out[i].dst] - 1
             /\ out[i].msg.prev_log_term
                  = LogGet(Post.log, out[i].msg.prev_log_index).term
\* the same for every prev_log_index but 1
C35_PrevLogTermBeyondOne ==
    Returned
        => \A i \in RequestsSent :
             /\ out[i].msg.prev_log_index = Post.next_index[out[i].dst] - 1
             /\ out[i].msg.prev_log_index # 1
                  => out[i].msg.prev_log_term
                       = LogGet(Post.log, out[i].msg.prev_log_index).term

(***************************************************************************)
(* C36. Log Matching on acceptance: whenever a follower replies            *)
(* success = true to an AppendEntriesReq that a Leader sent, the           *)
(* follower's log is, entry by entry, the Leader's log on the indices      *)
(* 1 .. prev_log_index + len(entries); hence the match_index[p] a Leader   *)
(* records never exceeds the length of the common prefix of the two logs.  *)
(* (A Leader's log only grows while it is Leader, so its log at the time   *)
(* of the reply has the log it sent from as a prefix.)                     *)
(***************************************************************************)
AcceptedFromLeader ==
    /\ Received("AppendEntriesReq")
    /\ hist.peer \in servers
    /\ state[hist.peer].mode = "Leader"
    /\ \E i \in 1 .. Len(out) :
          /\ out[i].dst = hist.peer
          /\ out[i].msg.type = "AppendEntriesRep"
          /\ out[i].msg.success
SameUpTo(l1, l2, k) ==
    \A i \in 1 .. k : i <= Len(l1) /\ i <= Len(l2) /\ l1[i] = l2[i]
C36_LogMatchingOnAccept ==
    AcceptedFromLeader
        => SameUpTo(Post.log, state[hist.peer].log, Ev.prev_log_index + Len(Ev.entries))

C37_NoElectionTimerPendingOnLeader ==
    \A n \in servers :
        state[n].mode = "Leader" => timers[n][CallElection] = << >>

(***************************************************************************)
(* C38. Whenever a node is Follower or Candidate an election timer is      *)
(* pending, from the moment the node is created; so a node that never      *)
(* receives a message has its election timer expire and becomes Candidate. *)
(***************************************************************************)
C38_ElectionTimerPending ==
    \A n \in servers :
        (status[n] = "running" /\ state[n].mode \in { "Follower", "Candidate" })
            => timers[n][CallElection] # << >>
\* the same of the nodes that have handled a message or a timer as Follower or Candidate
C38_ElectionTimerPendingAfterEvent ==
    (Returned /\ Ev.type \in { "AppendEntriesReq", "Timer" } /\ Pre.mode # "Leader")
        => timers[hist.node][CallElection] # << >>

(***************************************************************************)
(* C39. Retry converges: between a Leader and a follower p whose           *)
(* current_term does not exceed the Leader's, next_index[p] strictly       *)
(* decreases on each failure reply until the follower accepts, at the      *)
(* latest at next_index[p] = 1 (prev_log_index = 0); once the follower has *)
(* accepted a request that reaches the end of the Leader's log, its log    *)
(* equals the Leader's.                                                    *)
(***************************************************************************)
AcceptedWholeLog ==
    /\ AcceptedFromLeader
    /\ Pre.current_term <= state[hist.peer].current_term
    /\ Ev.prev_log_index + Len(Ev.entries) = Len(state[hist.peer].log)
FailureFromFollower ==
    /\ Received("AppendEntriesRep")
    /\ Pre.mode = "Leader"
    /\ ~Ev.success
    /\ Ev.term <= Pre.current_term
    /\ hist.peer \in servers
C39_RetryConverges ==
    /\ AcceptedWholeLog => Post.log = state[hist.peer].log
    /\ FailureFromFollower
         => \/ Post.next_index[hist.peer] < Pre.next_index[hist.peer]
            \/ Pre.next_index[hist.peer] = 1
\* the part of C39 about next_index alone
C39_RetryDecreases ==
    FailureFromFollower
        => /\ Post.next_index[hist.peer] < Pre.next_index[hist.peer]
           /\ Post.next_index[hist.peer] >= 1
\* a request with prev_log_index = 0 is accepted by a follower of a term not above the Leader's
C39_AcceptedAtOne ==
    (Received("AppendEntriesReq") /\ hist.peer \in servers /\ Pre.mode # "Leader"
       /\ Ev.prev_log_index = 0 /\ Pre.current_term <= Ev.term)
        => \E i \in 1 .. Len(out) : out[i].msg.type = "AppendEntriesRep" /\ out[i].msg.success

(***************************************************************************)
(* C40. No send deadlock: with bounded transport queues no event loop is   *)
(* suspended forever inside node.send; in particular no node is suspended  *)
(* in a send to its own id, whose inbound queue only its own loop drains.  *)
(***************************************************************************)
C40_NoSendDeadlock ==
    \A n \in servers : status[n] # "suspended"
====
